---- MODULE Spec2Model ----
(***************************************************************************)
(* Model of the finance calculator of src/app.py: the validator, the       *)
(* analyzer, the advisor, the chart builder and the POST /analyze handler  *)
(* that chains them, plus the GET / handler that serves the form.          *)
(*                                                                         *)
(* Numbers.  The program computes on Python floats, and what it shows      *)
(* depends on their rounding (0.09 * (26 / 12.0) is 0.19499999999999998    *)
(* and is shown as "0.19"), so the model computes on IEEE-754 doubles too. *)
(* A float is a record [s, m, e] of value s * m * 2^e: s is 1 or -1, m is  *)
(* the 53-bit significand written as a sequence of limbs in base 2^14,     *)
(* least significant first, and e is the exponent; zero has m = <<>> and   *)
(* e = 0, and -0.0 has s = -1.  FAdd, FSub, FMul and FDiv are +, -, * and  *)
(* / rounded to nearest, ties to even; RoundDecimal is round().  No        *)
(* exponent range is modelled: the amounts of a household stay far from    *)
(* overflow and underflow.  FInt(n) is float(n) and FromCents(c) is the    *)
(* float a field typed with two decimals parses to, so FromCents(1050) is  *)
(* 10.5 and FromCents(10) is 0.1.                                          *)
(*                                                                         *)
(* Strings the program formats are the same strings here: fmt gives        *)
(* "216.67", a chart row carries "width: 33.3%;" and "33.3%".  A value     *)
(* that may be None is a sequence: <<>> is None, <<v>> is the value v.     *)
(***************************************************************************)
EXTENDS Integers, Sequences, FiniteSets, Bags, TLC

(***************************************************************************)
(* Bounds of the explored inputs: the whole currency units up to which     *)
(* each amount ranges, and the number of concurrent clients.               *)
(***************************************************************************)
MaxHousing == 2
MaxOther == 1
MaxIncome == 5
NumClients == 2

None == <<>>
Some(v) == <<v>>

(***************************************************************************)
(* Natural numbers of any size: sequences of limbs, least significant      *)
(* first, no leading zero limb; <<>> is 0.  The operations are written     *)
(* without recursion: carries are resolved by lookahead.  An intermediate  *)
(* value is the argument of an operator, so that it is computed once.      *)
(***************************************************************************)
LimbBits == 14
Base == 2 ^ LimbBits

Limb(a, i) == IF 1 <= i /\ i <= Len(a) THEN a[i] ELSE 0

\* the largest element of a nonempty set of integers
Top(S) == CHOOSE m \in S : \A k \in S : k <= m

\* a up to the last of its limbs whose index is in nz, the nonzero ones
BStripTo(a, nz) == IF nz = {} THEN <<>> ELSE SubSeq(a, 1, Top(nz))

BStrip(a) == BStripTo(a, {i \in 1..Len(a) : a[i] # 0})

\* a carry comes into limb i of t, whose limbs are below 2 * Base
BCarryInto(t, i) ==
    \E j \in 1..(i - 1) :
        /\ t[j] >= Base
        /\ \A k \in (j + 1)..(i - 1) : t[k] = Base - 1

\* the columns p of n limbs below Base^3, each spread over three limbs
BSpread(p, n) ==
    SubSeq([i \in 1..(n + 2) |->
               (Limb(p, i) % Base)
               + ((Limb(p, i - 1) \div Base) % Base)
               + (Limb(p, i - 2) \div (Base * Base))], 1, n + 2)

\* the limbs s below 3 * Base, each spread over two limbs
BSpreadAgain(s, n) ==
    SubSeq([i \in 1..(n + 3) |->
               (Limb(s, i) % Base) + (Limb(s, i - 1) \div Base)], 1, n + 3)

\* the limbs t below 2 * Base with their carries, 0 or 1, looked ahead
BCarried(t, n) ==
    BStrip(SubSeq([i \in 1..(n + 3) |->
                      (t[i] + (IF BCarryInto(t, i) THEN 1 ELSE 0)) % Base],
                  1, n + 3))

\* the number sum of p[i] * Base^(i-1), for columns 0 <= p[i] < Base^3
BNorm(p) == BCarried(BSpreadAgain(BSpread(p, Len(p)), Len(p)), Len(p))

\* the limbs of an integer 0 <= n < 2^31
BFromInt(n) == BNorm(<<n>>)

\* the integer of a number of at most three limbs below 2^31; applied only
\* to the leading bits of a remainder and of a divisor
BToInt(a) ==
    Limb(a, 1) + (Base * Limb(a, 2)) + (Base * Base * Limb(a, 3))

\* the sum of a sequence of naturals: the size of the bag holding f[j]
\* copies of each j
Sum(f) == BagCardinality([j \in {k \in 1..Len(f) : f[k] > 0} |-> f[j]])

\* x * x modulo d
SquaredMod(x, d) == (x * x) % d

\* b^k modulo d, for 0 <= b < d <= 10000
RECURSIVE PowMod(_, _, _)
PowMod(b, k, d) ==
    IF k = 0 THEN 1 % d
    ELSE IF k % 2 = 1 THEN (b * PowMod(b, k - 1, d)) % d
    ELSE SquaredMod(PowMod(b, k \div 2, d), d)

\* the limbs of a from the i-th up, as a number, modulo 0 < d <= 10000
BModFrom(a, d, i) ==
    Sum([j \in 1..(Len(a) - i + 1) |->
            (a[j + i - 1] * PowMod(Base % d, j - 1, d)) % d]) % d

\* a divided by 0 < d <= 10000, rounded down, for a of any length
BDivSmall(a, d) ==
    BStrip([i \in 1..Len(a) |->
               ((BModFrom(a, d, i + 1) * Base) + a[i]) \div d])

BAdd(a, b) ==
    BNorm([i \in 1..(IF Len(a) >= Len(b) THEN Len(a) ELSE Len(b)) |->
              Limb(a, i) + Limb(b, i)])

\* a borrow is taken from limb i of the limb-wise differences d
BBorrowFrom(d, i) ==
    \E j \in 1..(i - 1) :
        /\ d[j] < 0
        /\ \A k \in (j + 1)..(i - 1) : d[k] = 0

\* the limb-wise differences d with their borrows looked ahead
BBorrowed(d) ==
    BStrip(SubSeq([i \in 1..Len(d) |->
                      (d[i] - (IF BBorrowFrom(d, i) THEN 1 ELSE 0)) % Base],
                  1, Len(d)))

\* a - b for a >= b
BSub(a, b) ==
    BBorrowed(SubSeq([i \in 1..Len(a) |-> a[i] - Limb(b, i)], 1, Len(a)))

\* the order of a and b of equal length that differ in the limbs diff
BCmpAt(a, b, diff) ==
    IF diff = {} THEN 0
    ELSE IF a[Top(diff)] < b[Top(diff)] THEN -1 ELSE 1

\* -1, 0 or 1 as a < b, a = b or a > b
BCmp(a, b) ==
    IF Len(a) # Len(b) THEN (IF Len(a) < Len(b) THEN -1 ELSE 1)
    ELSE BCmpAt(a, b, {i \in 1..Len(a) : a[i] # b[i]})

\* a * s for 0 <= s < 2^17
BMulSmall(a, s) == BNorm([i \in 1..Len(a) |-> a[i] * s])

\* u * v for u of at most four limbs (a significand)
BMulShort(u, v) ==
    BNorm([i \in 1..(Len(v) + 3) |->
              (Limb(u, 1) * Limb(v, i)) + (Limb(u, 2) * Limb(v, i - 1))
              + (Limb(u, 3) * Limb(v, i - 2))
              + (Limb(u, 4) * Limb(v, i - 3))])

\* a * b, the shorter of the two of at most four limbs
BMul(a, b) == IF Len(a) <= Len(b) THEN BMulShort(a, b) ELSE BMulShort(b, a)

\* a * 2^k
BShl(a, k) ==
    IF a = <<>> THEN a
    ELSE [i \in 1..(k \div LimbBits) |-> 0] \o BMulSmall(a, 2 ^ (k % LimbBits))

\* a without its last w limbs, \div b for a power of two b <= Base
BShrBy(a, w, b) ==
    IF w >= Len(a) THEN <<>>
    ELSE BStrip(SubSeq([i \in 1..(Len(a) - w) |->
                           (Limb(a, i + w) \div b)
                           + ((Limb(a, i + w + 1) % b) * (Base \div b))],
                       1, Len(a) - w))

\* a \div 2^k
BShr(a, k) == BShrBy(a, k \div LimbBits, 2 ^ (k % LimbBits))

BBitLen(a) ==
    IF a = <<>> THEN 0
    ELSE LimbBits * (Len(a) - 1)
         + Cardinality({j \in 0..(LimbBits - 1) : 2 ^ j <= a[Len(a)]})

BOdd(a) == a # <<>> /\ a[1] % 2 = 1

\* The quotient of a long division by a 53-bit d carried on, digit by digit
\* in base 256, until it has 57 bits: q is the quotient and r the remainder
\* so far (r < d); sticky tells whether anything is left after them.  A
\* digit g is estimated on the leading bits of r8 = 256 * r and of d, from
\* below and at most one short (g0).
RECURSIVE BDivDigits(_, _, _)

BDivNext(r8, d, q, g) ==
    BDivDigits(BSub(r8, BMulSmall(d, g)), d, BAdd(BMulSmall(q, 256), BFromInt(g)))

BDivTake(r8, d, q, g0) ==
    IF BCmp(BMulSmall(d, g0 + 1), r8) <= 0
    THEN BDivNext(r8, d, q, g0 + 1)
    ELSE BDivNext(r8, d, q, g0)

BDivStep(r8, d, q) ==
    BDivTake(r8, d, q, BToInt(BShr(r8, 31)) \div (BToInt(BShr(d, 31)) + 1))

BDivDigits(r, d, q) ==
    IF BBitLen(q) >= 57 THEN [q |-> q, sticky |-> r # <<>>]
    ELSE IF r = <<>> THEN [q |-> BShl(q, 57 - BBitLen(q)), sticky |-> FALSE]
    ELSE BDivStep(BMulSmall(r, 256), d, q)

\* q, which is a with its last bits dropped, rounded up or not: c is the
\* order of the dropped bits and one half
BRoundUp(q, c, sticky) ==
    IF c > 0 \/ (c = 0 /\ (sticky \/ BOdd(q))) THEN BAdd(q, <<1>>) ELSE q

BRoundFrom(a, k, sticky, q) ==
    BRoundUp(q, BCmp(BSub(a, BShl(q, k)), BShl(<<1>>, k - 1)), sticky)

\* a with its last k bits dropped (k >= 1), rounded to nearest, ties to
\* even; sticky tells that a stands for a value slightly above it
BRoundShr(a, k, sticky) == BRoundFrom(a, k, sticky, BShr(a, k))

(***************************************************************************)
(* Exact arithmetic on s * m * 2^e, m of any size                          *)
(***************************************************************************)
Dy(s, m, e) == [s |-> s, m |-> m, e |-> e]

XInt(n) == IF n < 0 THEN Dy(-1, BFromInt(-n), 0) ELSE Dy(1, BFromInt(n), 0)

XPow2(k) == Dy(1, <<1>>, k)

XNeg(x) == Dy(-x.s, x.m, x.e)

XAbs(x) == Dy(1, x.m, x.e)

XMul(x, y) == Dy(x.s * y.s, BMul(x.m, y.m), x.e + y.e)

\* xs * a * 2^e + ys * b * 2^e for signs that differ, c the order of a and b
XAddOpposed(xs, a, ys, b, e, c) ==
    IF c = 0 THEN Dy(1, <<>>, 0)
    ELSE IF c > 0 THEN Dy(xs, BSub(a, b), e)
    ELSE Dy(ys, BSub(b, a), e)

\* xs * a * 2^e + ys * b * 2^e
XAddAligned(xs, a, ys, b, e) ==
    IF xs = ys THEN Dy(xs, BAdd(a, b), e)
    ELSE XAddOpposed(xs, a, ys, b, e, BCmp(a, b))

\* x + y, both brought to the exponent e, the lesser of theirs
XAddAt(x, y, e) ==
    XAddAligned(x.s, BShl(x.m, x.e - e), y.s, BShl(y.m, y.e - e), e)

XAdd(x, y) == XAddAt(x, y, IF x.e <= y.e THEN x.e ELSE y.e)

XSub(x, y) == XAdd(x, XNeg(y))

\* -1, 0 or 1 as d < 0, d = 0 or d > 0
XSign(d) == IF d.m = <<>> THEN 0 ELSE d.s

\* -1, 0 or 1 as x < y, x = y or x > y; -0.0 equals 0.0
XCmp(x, y) == XSign(XSub(x, y))

(***************************************************************************)
(* Floats: the operations of Python's float                                *)
(***************************************************************************)
\* s * q * 2^e for q rounded to 53 bits: 54 bits when the rounding carried
FRounded(s, q, e) ==
    IF BBitLen(q) = 54 THEN Dy(s, BShr(q, 1), e + 1) ELSE Dy(s, q, e)

\* the double nearest to x, whose significand has len bits
FRoundLen(x, sticky, len) ==
    IF len = 0 THEN Dy(x.s, <<>>, 0)
    ELSE IF len <= 53 THEN Dy(x.s, BShl(x.m, 53 - len), x.e - (53 - len))
    ELSE FRounded(x.s, BRoundShr(x.m, len - 53, sticky), x.e + (len - 53))

\* the double nearest to x, ties to even; a zero keeps its sign
FRound(x, sticky) == FRoundLen(x, sticky, BBitLen(x.m))

\* float(n)
FInt(n) == FRound(XInt(n), FALSE)

Zero == Dy(1, <<>>, 0)

\* x * y
FMul(x, y) ==
    IF x.m = <<>> \/ y.m = <<>> THEN Dy(x.s * y.s, <<>>, 0)
    ELSE FRound(XMul(x, y), FALSE)

\* x + y; -0.0 only as the sum of two -0.0
FAdd(x, y) ==
    IF x.m = <<>> /\ y.m = <<>>
    THEN Dy(IF x.s = -1 /\ y.s = -1 THEN -1 ELSE 1, <<>>, 0)
    ELSE IF x.m = <<>> THEN y
    ELSE IF y.m = <<>> THEN x
    ELSE FRound(XAdd(x, y), FALSE)

\* x - y
FSub(x, y) == FAdd(x, XNeg(y))

\* s * d.q * 2^e rounded, d a quotient of 57 bits
FDivRounded(s, d, e) == FRound(Dy(s, d.q, e), d.sticky)

\* s * (n / d) * 2^(e + 56) for significands d <= n < 2 * d
FDivOf(s, n, d, e) == FDivRounded(s, BDivDigits(BSub(n, d), d, <<1>>), e)

\* x / y for y # 0: the significand of x, doubled if it is below that of y,
\* divided by that of y to 57 bits, then the rounding
FDiv(x, y) ==
    IF x.m = <<>> THEN Dy(x.s * y.s, <<>>, 0)
    ELSE IF BCmp(x.m, y.m) < 0
    THEN FDivOf(x.s * y.s, BMulSmall(x.m, 2), y.m, x.e - y.e - 57)
    ELSE FDivOf(x.s * y.s, x.m, y.m, x.e - y.e - 56)

\* x < y, x <= y, x > y
FLt(x, y) == XCmp(x, y) < 0
FLe(x, y) == XCmp(x, y) <= 0
FGt(x, y) == XCmp(x, y) > 0

\* max(a, b) and min(a, b): the first argument unless the second beats it
max(a, b) == IF FGt(b, a) THEN b ELSE a
min(a, b) == IF FLt(b, a) THEN b ELSE a

\* n * 2^e rounded to the nearest integer, ties to even: a number of any
\* length
RoundScaled(n, e) ==
    IF e >= 0 THEN BShl(n, e) ELSE BRoundShr(n, -e, FALSE)

\* |round(x, n)| * tens for tens = 10^n: |x| * tens rounded to the nearest
\* integer, ties to even, on the exact value of the float; a number of any
\* length, for a float of any finite magnitude
RoundDecimal(x, tens) == RoundScaled(BMulSmall(x.m, tens), x.e)

\* the float a form field of c hundredths parses to
FromCents(c) == FDiv(FInt(c), FInt(100))

(***************************************************************************)
(* FinanceInput                                                            *)
(***************************************************************************)
FinanceInput(hs, hp, ap, cp, sp, inc, percent, mode, annual) ==
    [housing_status |-> hs,
     housing_payment |-> hp,
     auto_payment |-> ap,
     credit_payment |-> cp,
     student_payment |-> sp,
     monthly_after_tax_income |-> inc,
     save_percent |-> percent,
     period_mode |-> mode,
     show_annual |-> annual]

(***************************************************************************)
(* validate                                                                *)
(***************************************************************************)
ErrHousing == "Housing payment cannot be negative."
ErrAuto == "Auto loan payment cannot be negative."
ErrCredit == "Credit card payment cannot be negative."
ErrStudent == "Student loan payment cannot be negative."
ErrIncome == "Take-home pay per paycheck cannot be negative."
ErrPercent == "Percent to save must be between 0 and 100."

\* validate stopping at the first violated rule
validate_first_only(finance) ==
    IF FLt(finance.housing_payment, Zero) THEN <<ErrHousing>>
    ELSE IF FLt(finance.auto_payment, Zero) THEN <<ErrAuto>>
    ELSE IF FLt(finance.credit_payment, Zero) THEN <<ErrCredit>>
    ELSE IF FLt(finance.student_payment, Zero) THEN <<ErrStudent>>
    ELSE IF FLt(finance.monthly_after_tax_income, Zero) THEN <<ErrIncome>>
    ELSE IF FLt(finance.save_percent, Zero) \/ FGt(finance.save_percent, FInt(100))
         THEN <<ErrPercent>>
    ELSE <<>>

validate(finance) ==
    (IF FLt(finance.housing_payment, Zero) THEN <<ErrHousing>> ELSE <<>>)
    \o (IF FLt(finance.auto_payment, Zero) THEN <<ErrAuto>> ELSE <<>>)
    \o (IF FLt(finance.credit_payment, Zero) THEN <<ErrCredit>> ELSE <<>>)
    \o (IF FLt(finance.student_payment, Zero) THEN <<ErrStudent>> ELSE <<>>)
    \o (IF FLt(finance.monthly_after_tax_income, Zero) THEN <<ErrIncome>> ELSE <<>>)
    \o (IF FLt(finance.save_percent, Zero) \/ FGt(finance.save_percent, FInt(100))
        THEN <<ErrPercent>> ELSE <<>>)

(***************************************************************************)
(* analyze_finance                                                         *)
(***************************************************************************)
paychecks_per_year == 26

\* monthly_factor = paychecks_per_year / 12.0
monthly_factor == FDiv(FInt(paychecks_per_year), FInt(12))

\* the monthly factor taken as two paychecks a month
times_monthly_factor_two(x) == FMul(x, FInt(2))

\* x * monthly_factor
times_monthly_factor(x) == FMul(x, monthly_factor)

\* the last places decimal digits of a natural k, zeros included: "07" for
\* 7 and 2
RECURSIVE Padded(_, _)
Padded(k, places) ==
    IF places = 0 THEN ""
    ELSE Padded(k \div 10, places - 1) \o ToString(k % 10)

\* n without its last four decimal digits, and those digits
Over4(n) == BDivSmall(n, 10000)
Low4(n) == Padded(BModFrom(n, 10000, 1), 4)

\* n without its last sixteen decimal digits, and those digits
Over16(n) == Over4(Over4(Over4(Over4(n))))
Low16(n) ==
    Low4(Over4(Over4(Over4(n)))) \o Low4(Over4(Over4(n)))
    \o Low4(Over4(n)) \o Low4(n)

\* the decimal digits of a number of any length, sixteen at a time while
\* more than sixteen are left, then four at a time: "0" for zero
RECURSIVE Decimal(_)
Decimal(n) ==
    IF Len(n) <= 1 /\ Limb(n, 1) < 10000 THEN ToString(Limb(n, 1))
    ELSE IF Over16(n) = <<>> THEN Decimal(Over4(n)) \o Low4(n)
    ELSE Decimal(Over16(n)) \o Low16(n)

\* f"{n / 10^places:.{places}f}" for a number n of any length: "216.67" for
\* 21667 and 2
Fixed(n, places) ==
    Decimal(BDivSmall(n, 10 ^ places)) \o "."
    \o Padded(BModFrom(n, 10 ^ places, 1), places)

\* f"{round(x, 2):.2f}"; a negative x that rounds to zero shows "-0.00"
fmt(x) == (IF x.s = -1 THEN "-" ELSE "") \o Fixed(RoundDecimal(x, 100), 2)

\* total_debt: the sum of the four payments, left to right
total_debt_of(data) ==
    FAdd(FAdd(FAdd(data.housing_payment, data.auto_payment),
              data.credit_payment),
         data.student_payment)

\* the branch on available_cash taken with < instead of <=
can_save_of_strict(available_cash) == ~FLt(available_cash, Zero)

\* can_save: the branch on available_cash <= 0
can_save_of(available_cash) == ~FLe(available_cash, Zero)

\* save_fraction without the clamp
save_fraction_of_unclamped(save_percent) == FDiv(save_percent, FInt(100))

\* save_fraction = max(0.0, min(data.save_percent, 100.0)) / 100.0
save_fraction_of(save_percent) ==
    FDiv(max(Zero, min(save_percent, FInt(100))), FInt(100))

\* savings, in either branch
savings_of(available_cash, save_percent) ==
    IF can_save_of(available_cash)
    THEN FMul(available_cash, save_fraction_of(save_percent))
    ELSE Zero

\* spending, in either branch
spending_of(available_cash, savings) ==
    IF can_save_of(available_cash)
    THEN FSub(available_cash, savings)
    ELSE available_cash

\* debt_income_ratio defaulting to 0 instead of None
debt_income_ratio_of_zero(total_debt, income) ==
    IF FGt(income, Zero) THEN Some(FDiv(total_debt, income)) ELSE Some(Zero)

\* debt_income_ratio with the operands swapped
debt_income_ratio_of_inverted(total_debt, income) ==
    IF FGt(income, Zero) /\ total_debt.m # <<>>
    THEN Some(FDiv(income, total_debt))
    ELSE None

\* debt_income_ratio: None unless income > 0
debt_income_ratio_of(total_debt, income) ==
    IF FGt(income, Zero) THEN Some(FDiv(total_debt, income)) ELSE None

\* the dict analyze_finance returns, from its locals
analysis_result(income, total_debt, available_cash, savings, spending) ==
    [total_debt |-> fmt(total_debt),
     available_cash |-> fmt(available_cash),
     savings_per_paycheck |-> fmt(savings),
     spending_per_paycheck |-> fmt(spending),
     total_debt_monthly |-> fmt(times_monthly_factor(total_debt)),
     available_monthly |-> fmt(times_monthly_factor(available_cash)),
     monthly_savings |-> fmt(times_monthly_factor(savings)),
     monthly_spending |-> fmt(times_monthly_factor(spending)),
     annual_savings |-> fmt(FMul(savings, FInt(paychecks_per_year))),
     annual_spending |-> fmt(FMul(spending, FInt(paychecks_per_year))),
     can_save |-> can_save_of(available_cash),
     available_cash_raw |-> available_cash,
     total_debt_raw |-> total_debt,
     income_raw |-> income,
     debt_income_ratio |-> debt_income_ratio_of(total_debt, income),
     savings_raw |-> savings,
     spending_raw |-> spending]

\* analyze_finance once savings is assigned
analyze_with_savings(data, total_debt, available_cash, savings) ==
    analysis_result(data.monthly_after_tax_income, total_debt, available_cash,
                    savings, spending_of(available_cash, savings))

\* analyze_finance once available_cash is assigned
analyze_with_available_cash(data, total_debt, available_cash) ==
    analyze_with_savings(data, total_debt, available_cash,
                         savings_of(available_cash, data.save_percent))

\* analyze_finance once total_debt is assigned
analyze_with_total_debt(data, total_debt) ==
    analyze_with_available_cash(data, total_debt,
                                FSub(data.monthly_after_tax_income, total_debt))

analyze_finance(data) == analyze_with_total_debt(data, total_debt_of(data))

(***************************************************************************)
(* advice_messages                                                         *)
(***************************************************************************)
MsgShort == "You are short this period. First goal: get leftover cash to at least 0."
MsgListBills == "List your must-pay bills vs. flexible expenses."
MsgVeryHeavy == "Your debt payments are more than 60% of your income this period. This is very heavy."
MsgHigh == "Your debt payments are between 40% and 60% of your income this period. This is high."
MsgLowSavings == "You have leftover cash but are saving a small portion of it."

\* the literals 0.6, 0.4 and 0.05
VeryHeavyAbove == FDiv(FInt(6), FInt(10))
HighAbove == FDiv(FInt(4), FInt(10))
LowSavingsShare == FDiv(FInt(5), FInt(100))

\* the second threshold tested with if instead of elif
debt_load_messages_both(r) ==
    IF r # None
    THEN (IF FGt(r[1], VeryHeavyAbove) THEN <<MsgVeryHeavy>> ELSE <<>>)
         \o (IF FGt(r[1], HighAbove) THEN <<MsgHigh>> ELSE <<>>)
    ELSE <<>>

\* the if r is not None: if r > 0.6 ... elif r > 0.4 ... block
debt_load_messages(r) ==
    IF r # None
    THEN IF FGt(r[1], VeryHeavyAbove) THEN <<MsgVeryHeavy>>
         ELSE IF FGt(r[1], HighAbove) THEN <<MsgHigh>>
         ELSE <<>>
    ELSE <<>>

advice_messages(result) ==
    LET available == result.available_cash_raw
        r == result.debt_income_ratio
        savings_raw == result.savings_raw
    IN  (IF FLt(available, Zero) THEN <<MsgShort, MsgListBills>> ELSE <<>>)
        \o debt_load_messages(r)
        \o (IF FGt(available, Zero)
               /\ FLt(savings_raw, max(FInt(20), FMul(LowSavingsShare, available)))
            THEN <<MsgLowSavings>> ELSE <<>>)

(***************************************************************************)
(* bar_chart                                                               *)
(***************************************************************************)
\* 100 * x / total rounded to a whole percent, in tenths
pct_whole(x, total) ==
    BMulSmall(RoundDecimal(FDiv(FMul(FInt(100), x), total), 1), 10)

\* round(100 * x / total, 1), in tenths: 333 is 33.3
pct(x, total) == RoundDecimal(FDiv(FMul(FInt(100), x), total), 10)

\* one chart-row showing width, a number with one decimal
ChartRowOfWidth(label, width) ==
    [label |-> label, style |-> "width: " \o width \o "%;", text |-> width \o "%"]

\* one chart-row: the style of its bar and its text; width is the int 0
\* when value <= 0
ChartRow(label, value, total) ==
    IF FLe(value, Zero)
    THEN [label |-> label, style |-> "width: 0%;", text |-> "0.0%"]
    ELSE ChartRowOfWidth(label, Fixed(pct(value, total), 1))

\* bar_chart once total is assigned
bar_chart_of_total(debt, savings, spending, total) ==
    IF FLe(total, Zero)
    THEN [cls |-> "chart", rows |-> <<>>]
    ELSE [cls |-> "chart card",
          rows |-> <<ChartRow("Debt", debt, total),
                     ChartRow("Savings", savings, total),
                     ChartRow("Spending", max(spending, Zero), total)>>]

\* bar_chart once debt, savings and spending are assigned
bar_chart_of(debt, savings, spending) ==
    bar_chart_of_total(debt, savings, spending,
                       FAdd(FAdd(debt, savings), max(spending, Zero)))

bar_chart(result) ==
    bar_chart_of(max(result.total_debt_raw, Zero), max(result.savings_raw, Zero),
                 max(result.spending_raw, Zero))


(***************************************************************************)
(* POST /analyze: the decisions of the handler that are not markup         *)
(***************************************************************************)
\* mode = finance.period_mode or "paycheck"
mode_of(finance) ==
    IF finance.period_mode = "" THEN "paycheck" ELSE finance.period_mode

\* show_annual = bool(finance.show_annual)
show_annual_of(finance) == finance.show_annual # ""

\* The summary sentence: its fixed wording and the figures it interpolates.
summary(result, mode) ==
    IF FLe(result.available_cash_raw, Zero)
    THEN IF mode = "monthly"
         THEN [text |-> "You do not have leftover cash after debts (in the monthly equivalent).",
               figures |-> <<>>]
         ELSE [text |-> "You do not have leftover cash after debts this paycheck.",
               figures |-> <<>>]
    ELSE IF mode = "monthly"
         THEN [text |-> "Monthly equivalent: you have {} left after debts.",
               figures |-> <<result.available_monthly, result.monthly_savings,
                             result.monthly_spending>>]
         ELSE [text |-> "You have {} left after debts this paycheck.",
               figures |-> <<result.available_cash, result.savings_per_paycheck,
                             result.spending_per_paycheck>>]

summary_cls(result) ==
    IF FLe(result.available_cash_raw, Zero) THEN "result-bad" ELSE "result-good"

Li(label, values) == [label |-> label, values |-> values]

items(result, mode, show_annual) ==
    (IF mode = "monthly"
     THEN <<Li("total_debt_per_month (approx)", <<result.total_debt_monthly>>),
            Li("available_cash_before_saving_per_month (approx)",
               <<result.available_monthly>>),
            Li("savings_per_month (approx)", <<result.monthly_savings>>),
            Li("spending_money_per_month (approx)", <<result.monthly_spending>>)>>
     ELSE <<Li("total_debt_per_paycheck", <<result.total_debt>>),
            Li("available_cash_before_saving", <<result.available_cash>>),
            Li("savings_per_paycheck", <<result.savings_per_paycheck>>),
            Li("spending_money_per_paycheck", <<result.spending_per_paycheck>>)>>)
    \o (IF show_annual
        THEN <<Li("annual_savings (26 paychecks) | annual_spending (26 paychecks)",
                  <<result.annual_savings, result.annual_spending>>)>>
        ELSE <<>>)

\* The fragment returned when validation fails.
ErrorFragment(errs) == [kind |-> "errors", errors |-> errs]

\* The fragment returned otherwise; an empty advice list renders no block.
ResultFragment(v, ch, adv) ==
    [kind |-> "results",
     summary |-> v.summary,
     summary_cls |-> v.summary_cls,
     items |-> v.items,
     chart |-> ch,
     advice_block |-> adv]

\* The handler's locals summary, summary_cls and items
ViewOf(result, mode, show_annual) ==
    [summary |-> summary(result, mode),
     summary_cls |-> summary_cls(result),
     items |-> items(result, mode, show_annual)]

\* POST /analyze from line 359 to its return
post_result(result, mode, show_annual) ==
    ResultFragment(ViewOf(result, mode, show_annual), bar_chart(result),
                   advice_messages(result))

\* POST /analyze run from its first line to its return
post(finance) ==
    IF validate(finance) # <<>>
    THEN ErrorFragment(validate(finance))
    ELSE post_result(analyze_finance(finance), mode_of(finance),
                     show_annual_of(finance))

(***************************************************************************)
(* GET /: the form and its default field values                            *)
(***************************************************************************)
FormDefaults ==
    FinanceInput("rent", Zero, Zero, Zero, Zero, Zero, FInt(10), "paycheck", "")

(***************************************************************************)
(* Inputs explored                                                         *)
(***************************************************************************)
\* Amounts typed in the form as whole hundreds of currency units
Hundreds(top) == {FInt(100 * k) : k \in 0..top}

\* Amounts typed in the form with two decimals, given in hundredths
Cents(cs) == {FromCents(c) : c \in cs}

Percents(ps) == {FInt(p) : p \in ps}

\* Inputs on which the four functions are applied directly: amounts in
\* hundreds, which reach the debt ratios 0.4 and 0.6 (200 and 300 of 500)
\* and savings of 20 and of 5% of the leftover cash (4% and 5% of 500);
\* small amounts whose products and quotients fall next to a rounding
\* boundary; and every combination of fields out of bounds.
FnInputs ==
    {FinanceInput("rent", hp, ap, cp, sp, inc, p, "paycheck", "") :
        hp \in Hundreds(MaxHousing), ap \in Hundreds(MaxOther),
        cp \in Hundreds(MaxOther), sp \in Hundreds(MaxOther),
        inc \in Hundreds(MaxIncome),
        p \in Percents({0, 1, 4, 5, 50, 100, 150})}
    \cup
    {FinanceInput("rent", hp, ap, Zero, Zero, inc, p, "paycheck", "") :
        hp \in Cents({0, 10, 100}), ap \in Cents({0, 20}),
        inc \in Cents({30, 100, 400, 900}),
        p \in Percents({-1, 0, 7, 9, 50, 100, 150})}
    \cup
    {FinanceInput("rent", hp, ap, cp, sp, inc, p, "paycheck", "") :
        hp \in Cents({-1, 0}), ap \in Cents({-1, 0}), cp \in Cents({-1, 0}),
        sp \in Cents({-1, 0}), inc \in Cents({-1, 0}),
        p \in Percents({-1, 0, 150})}

\* Forms one client submits to the handler.
FormInputs ==
    {FinanceInput("rent", hp, ap, Zero, Zero, inc, p, ma[1], ma[2]) :
        hp \in Cents({-1}) \cup Hundreds(MaxHousing),
        ap \in Hundreds(MaxOther),
        inc \in Cents({30}) \cup Hundreds(MaxIncome),
        p \in Percents({7, 50, 150}),
        ma \in {<<"", "">>, <<"paycheck", "on">>, <<"monthly", "">>}}

\* Forms concurrent clients submit to the handler.
ConcInputs ==
    {FinanceInput("own", hp, Zero, Zero, Zero, inc, p, "monthly", "on") :
        hp \in {FromCents(-1), FInt(300)}, inc \in {Zero, FInt(500)},
        p \in {FInt(4), FInt(150)}}

(***************************************************************************)
(* State                                                                   *)
(***************************************************************************)
Clients == 1..NumClients

VARIABLES
    pc,        \* pc[c]: where client c's request is
    form,      \* form[c]: the fields client c submits
    page,      \* page[c]: the form GET / returned to c, or None
    errors,    \* errors[c]: the handler's local errors, or None
    result,    \* result[c]: the handler's local result, or None
    view,      \* view[c]: the handler's locals summary, summary_cls, items
    advice,    \* advice[c]: the handler's local advice, or None
    chart,     \* chart[c]: the handler's local chart, or None
    response,  \* response[c]: the fragment returned to c, or None
    invoked,   \* invoked[c]: the functions the handler has called for c
    call       \* a direct application of the four functions to one input

vars == <<pc, form, page, errors, result, view, advice, chart, response,
          invoked, call>>

handlerVars == <<pc, form, page, errors, result, view, advice, chart,
                 response, invoked>>

NoCall == [stage |-> "off", arg |-> None, errors |-> None, result |-> None,
           advice |-> None, chart |-> None]

Unset == [c \in Clients |-> None]

InitHandler(pcs, forms) ==
    /\ pc = pcs
    /\ form = forms
    /\ page = Unset
    /\ errors = Unset
    /\ result = Unset
    /\ view = Unset
    /\ advice = Unset
    /\ chart = Unset
    /\ response = Unset
    /\ invoked = [c \in Clients |-> {}]

\* One client submits any form; the others send nothing.
Init ==
    /\ \E f \in FormInputs :
          InitHandler([c \in Clients |-> IF c = 1 THEN "start" ELSE "off"],
                      [c \in Clients |-> IF c = 1 THEN f ELSE FormDefaults])
    /\ call = NoCall

\* Every client submits a form; the requests interleave.
InitConc ==
    /\ \E fs \in [Clients -> ConcInputs] :
          InitHandler([c \in Clients |-> "start"], fs)
    /\ call = NoCall

\* No client; the functions are applied directly to one input.
InitFn ==
    /\ InitHandler([c \in Clients |-> "off"], [c \in Clients |-> FormDefaults])
    /\ \E f \in FnInputs : call = [NoCall EXCEPT !.stage = "validate", !.arg = Some(f)]

(***************************************************************************)
(* Handlers                                                                *)
(***************************************************************************)
\* GET /
Get(c) ==
    /\ pc[c] = "start"
    /\ pc' = [pc EXCEPT ![c] = "form"]
    /\ page' = [page EXCEPT ![c] = Some(FormDefaults)]
    /\ UNCHANGED <<form, errors, result, view, advice, chart, response,
                   invoked, call>>

\* POST /analyze without the return on errors
PostValidate_no_return(c) ==
    /\ pc[c] \in {"start", "form"}
    /\ errors' = [errors EXCEPT ![c] = Some(validate(form[c]))]
    /\ pc' = [pc EXCEPT ![c] = "analyze"]
    /\ invoked' = [invoked EXCEPT ![c] = @ \cup {"validate"}]
    /\ UNCHANGED <<form, page, result, view, advice, chart, response, call>>

\* POST /analyze, up to the return on errors
PostValidate(c) ==
    /\ pc[c] \in {"start", "form"}
    /\ LET errs == validate(form[c])
       IN  /\ errors' = [errors EXCEPT ![c] = Some(errs)]
           /\ IF errs # <<>>
              THEN /\ response' = [response EXCEPT ![c] = Some(ErrorFragment(errs))]
                   /\ pc' = [pc EXCEPT ![c] = "done"]
              ELSE /\ response' = response
                   /\ pc' = [pc EXCEPT ![c] = "analyze"]
    /\ invoked' = [invoked EXCEPT ![c] = @ \cup {"validate"}]
    /\ UNCHANGED <<form, page, result, view, advice, chart, call>>

\* POST /analyze analysing a form kept in a place all requests share
PostAnalyze_shared(c) ==
    /\ pc[c] = "analyze"
    /\ \E d \in Clients :
          /\ pc[d] # "off"
          /\ result' = [result EXCEPT ![c] = Some(analyze_finance(form[d]))]
          /\ view' = [view EXCEPT ![c] =
                        Some(ViewOf(analyze_finance(form[d]), mode_of(form[d]),
                                    show_annual_of(form[d])))]
    /\ invoked' = [invoked EXCEPT ![c] = @ \cup {"analyze_finance"}]
    /\ pc' = [pc EXCEPT ![c] = "advise"]
    /\ UNCHANGED <<form, page, errors, advice, chart, response, call>>

\* POST /analyze: the analysis, the summary and the detail list
PostAnalyze(c) ==
    /\ pc[c] = "analyze"
    /\ result' = [result EXCEPT ![c] = Some(analyze_finance(form[c]))]
    /\ view' = [view EXCEPT ![c] =
                  Some(ViewOf(analyze_finance(form[c]), mode_of(form[c]),
                              show_annual_of(form[c])))]
    /\ invoked' = [invoked EXCEPT ![c] = @ \cup {"analyze_finance"}]
    /\ pc' = [pc EXCEPT ![c] = "advise"]
    /\ UNCHANGED <<form, page, errors, advice, chart, response, call>>

\* POST /analyze: the advice
PostAdvise(c) ==
    /\ pc[c] = "advise"
    /\ advice' = [advice EXCEPT ![c] = Some(advice_messages(result[c][1]))]
    /\ invoked' = [invoked EXCEPT ![c] = @ \cup {"advice_messages"}]
    /\ pc' = [pc EXCEPT ![c] = "chart"]
    /\ UNCHANGED <<form, page, errors, result, view, chart, response, call>>

\* POST /analyze: the chart and the returned fragment
PostChart(c) ==
    /\ pc[c] = "chart"
    /\ LET ch == bar_chart(result[c][1])
       IN  /\ chart' = [chart EXCEPT ![c] = Some(ch)]
           /\ response' = [response EXCEPT ![c] =
                             Some(ResultFragment(view[c][1], ch, advice[c][1]))]
    /\ invoked' = [invoked EXCEPT ![c] = @ \cup {"bar_chart"}]
    /\ pc' = [pc EXCEPT ![c] = "done"]
    /\ UNCHANGED <<form, page, errors, result, view, advice, call>>

Next ==
    \E c \in Clients :
        \/ Get(c)
        \/ PostValidate(c)
        \/ PostAnalyze(c)
        \/ PostAdvise(c)
        \/ PostChart(c)

Spec == Init /\ [][Next]_vars

SpecConc == InitConc /\ [][Next]_vars

(***************************************************************************)
(* Direct applications of the functions, whatever validate returns         *)
(***************************************************************************)
CallValidate ==
    /\ call.stage = "validate"
    /\ call' = [call EXCEPT !.errors = Some(validate(call.arg[1])),
                            !.stage = "analyze"]
    /\ UNCHANGED handlerVars

CallAnalyze ==
    /\ call.stage = "analyze"
    /\ call' = [call EXCEPT !.result = Some(analyze_finance(call.arg[1])),
                            !.stage = "advise"]
    /\ UNCHANGED handlerVars

CallAdvise ==
    /\ call.stage = "advise"
    /\ call' = [call EXCEPT !.advice = Some(advice_messages(call.result[1])),
                            !.stage = "chart"]
    /\ UNCHANGED handlerVars

CallChart ==
    /\ call.stage = "chart"
    /\ call' = [call EXCEPT !.chart = Some(bar_chart(call.result[1])),
                            !.stage = "done"]
    /\ UNCHANGED handlerVars

NextFn == CallValidate \/ CallAnalyze \/ CallAdvise \/ CallChart

SpecFn == InitFn /\ [][NextFn]_vars


(***************************************************************************)
(* Properties                                                              *)
(***************************************************************************)
Contains(seq, x) == \E i \in 1..Len(seq) : seq[i] = x

\* Exact comparisons and distances of floats taken as the rationals they are
XLe(x, y) == XCmp(x, y) <= 0

XDist(x, y) == XAbs(XSub(x, y))

\* The integer a formatted figure spells once its point and its percent
\* sign are left out: "216.67" is 21667, "-0.01" is -1, "33.3%" is 333.
RECURSIVE DigitsOf(_, _)
DigitsOf(str, acc) ==
    IF Len(str) = 0 THEN acc
    ELSE LET c == Head(str)
         IN  IF \E d \in 0..9 : ToString(d) = c
             THEN DigitsOf(Tail(str),
                           (10 * acc) + (CHOOSE d \in 0..9 : ToString(d) = c))
             ELSE DigitsOf(Tail(str), acc)

Shown(str) ==
    IF Len(str) > 0 /\ Head(str) = "-" THEN -DigitsOf(str, 0)
    ELSE DigitsOf(str, 0)

\* income minus the sum of the four payments, in the program's floats
AvailableOf(f) ==
    FSub(f.monthly_after_tax_income,
         FAdd(FAdd(FAdd(f.housing_payment, f.auto_payment), f.credit_payment),
              f.student_payment))

\* The sum of the four payments and the sum of their magnitudes, exactly
DebtOf(f) ==
    XAdd(XAdd(XAdd(f.housing_payment, f.auto_payment), f.credit_payment),
         f.student_payment)

DebtSizeOf(f) ==
    XAdd(XAdd(XAdd(XAbs(f.housing_payment), XAbs(f.auto_payment)),
              XAbs(f.credit_payment)),
         XAbs(f.student_payment))

Invalid(f) ==
    \/ FLt(f.housing_payment, Zero)
    \/ FLt(f.auto_payment, Zero)
    \/ FLt(f.credit_payment, Zero)
    \/ FLt(f.student_payment, Zero)
    \/ FLt(f.monthly_after_tax_income, Zero)
    \/ FLt(f.save_percent, Zero)
    \/ FGt(f.save_percent, FInt(100))

\* C1: a submission on which validation fails gets the error list only: the
\* handler never calls analyze_finance, advice_messages or bar_chart for it
\* and produces no result, summary, detail list, chart or advice.
C1_InvalidSuppressesComputation ==
    \A c \in Clients :
        (pc[c] # "off" /\ Invalid(form[c])) =>
            /\ invoked[c] \subseteq {"validate"}
            /\ result[c] = None
            /\ view[c] = None
            /\ advice[c] = None
            /\ chart[c] = None
            /\ pc[c] \in {"start", "form", "done"}
            /\ pc[c] = "done" =>
                  /\ response[c] # None
                  /\ response[c][1].kind = "errors"
                  /\ response[c][1].errors = errors[c][1]
                  /\ errors[c][1] # <<>>

C1_Witness ==
    /\ pc[1] = "done"
    /\ form[1].save_percent = FInt(150)
    /\ form[1].housing_payment = FInt(200)
    /\ form[1].monthly_after_tax_income = FInt(400)
    /\ invoked[1] = {"validate"}
    /\ response[1] # None
    /\ response[1][1].kind = "errors"
    /\ response[1][1].errors = <<ErrPercent>>

RuleOrder ==
    <<ErrHousing, ErrAuto, ErrCredit, ErrStudent, ErrIncome, ErrPercent>>

RuleViolated(f, e) ==
    CASE e = ErrHousing -> FLt(f.housing_payment, Zero)
      [] e = ErrAuto -> FLt(f.auto_payment, Zero)
      [] e = ErrCredit -> FLt(f.credit_payment, Zero)
      [] e = ErrStudent -> FLt(f.student_payment, Zero)
      [] e = ErrIncome -> FLt(f.monthly_after_tax_income, Zero)
      [] e = ErrPercent ->
            ~(FLe(Zero, f.save_percent) /\ FLe(f.save_percent, FInt(100)))

\* C2: validate returns one message for each violated rule and none for a
\* satisfied one, in the order housing, auto, credit, student, income,
\* save_percent, and returns nothing exactly when every field is in bounds.
C2_ValidateExact ==
    call.errors # None =>
        LET f == call.arg[1]
            e == call.errors[1]
        IN  /\ e = SelectSeq(RuleOrder, LAMBDA m : RuleViolated(f, m))
            /\ (e = <<>>) <=> ~Invalid(f)

C2_Witness ==
    /\ call.errors # None
    /\ ~FLt(call.arg[1].housing_payment, Zero)
    /\ call.arg[1].save_percent = FInt(150)
    /\ call.errors[1] = <<ErrAuto, ErrIncome, ErrPercent>>

AdviceOrder == <<MsgShort, MsgListBills, MsgVeryHeavy, MsgHigh, MsgLowSavings>>

RatioPresentAbove(res, level) ==
    /\ res.debt_income_ratio # None
    /\ FGt(res.debt_income_ratio[1], level)

AdviceApplies(res, m) ==
    CASE m = MsgShort -> FLt(res.available_cash_raw, Zero)
      [] m = MsgListBills -> FLt(res.available_cash_raw, Zero)
      [] m = MsgVeryHeavy -> RatioPresentAbove(res, VeryHeavyAbove)
      [] m = MsgHigh -> /\ RatioPresentAbove(res, HighAbove)
                        /\ ~RatioPresentAbove(res, VeryHeavyAbove)
      [] m = MsgLowSavings ->
            /\ FGt(res.available_cash_raw, Zero)
            /\ \/ FLt(res.savings_raw, FInt(20))
               \/ FLt(res.savings_raw,
                      FMul(LowSavingsShare, res.available_cash_raw))

\* C3: the advice is, in this order, the two shortfall messages iff
\* available_cash < 0, then the very-heavy message iff the ratio is present
\* and above 0.6, else the high message iff it is present and above 0.4,
\* then the low-savings message iff available_cash > 0 and savings are below
\* max(20, 5% of available_cash); nothing else, and never both debt messages.
C3_AdviceExact ==
    call.advice # None =>
        LET res == call.result[1]
            a == call.advice[1]
        IN  /\ a = SelectSeq(AdviceOrder, LAMBDA m : AdviceApplies(res, m))
            /\ ~(Contains(a, MsgVeryHeavy) /\ Contains(a, MsgHigh))

C3_Witness ==
    /\ call.advice # None
    /\ call.result[1].available_cash_raw = FInt(500)
    /\ call.result[1].savings_raw = FInt(20)
    /\ FLt(call.result[1].savings_raw,
           FMul(LowSavingsShare, call.result[1].available_cash_raw))
    /\ call.advice[1] = <<MsgLowSavings>>

\* C4: when income minus the four payments is <= 0, can_save is false,
\* savings is 0 and spending equals available_cash, whatever save_percent is.
C4_NoCashNoSavings ==
    (call.result # None /\ FLe(AvailableOf(call.arg[1]), Zero)) =>
        LET res == call.result[1]
        IN  /\ res.can_save = FALSE
            /\ res.savings_raw = Zero
            /\ res.savings_per_paycheck = "0.00"
            /\ res.available_cash_raw = AvailableOf(call.arg[1])
            /\ res.spending_raw = res.available_cash_raw
            /\ res.spending_per_paycheck = res.available_cash

C4_Witness ==
    /\ call.result # None
    /\ AvailableOf(call.arg[1]) = Zero
    /\ call.arg[1].monthly_after_tax_income = FInt(300)
    /\ call.arg[1].save_percent = FInt(50)
    /\ call.result[1].can_save = FALSE
    /\ call.result[1].spending_raw = Zero

Clamp(x, lo, hi) == IF FLt(x, lo) THEN lo ELSE IF FGt(x, hi) THEN hi ELSE x

\* C5: when available_cash > 0, can_save is true, savings is available_cash
\* times clamp(save_percent, 0, 100)/100, and the unrounded savings and
\* spending sum to available_cash, each up to the rounding of the floating
\* point operations (a relative 2^-51 for the product and the quotient, a
\* relative 2^-53 for the difference).
C5_SplitOfAvailableCash ==
    (call.result # None /\ FGt(AvailableOf(call.arg[1]), Zero)) =>
        LET res == call.result[1]
            av == AvailableOf(call.arg[1])
            share == XMul(av, Clamp(call.arg[1].save_percent, Zero, FInt(100)))
        IN  /\ res.can_save = TRUE
            /\ res.available_cash_raw = av
            /\ XLe(XDist(XMul(XInt(100), res.savings_raw), share),
                   XMul(share, XPow2(-51)))
            /\ XLe(XDist(XAdd(res.savings_raw, res.spending_raw), av),
                   XMul(av, XPow2(-53)))

C5_Witness ==
    /\ call.result # None
    /\ AvailableOf(call.arg[1]) = FInt(300)
    /\ call.arg[1].save_percent = FInt(150)
    /\ call.result[1].savings_raw = FInt(300)
    /\ call.result[1].spending_raw = Zero

\* C6: debt_income_ratio is None whenever income = 0, whatever total_debt
\* is, and is present and equal to total_debt/income (up to the rounding of
\* the sum and of the quotient, a relative 2^-50) whenever income > 0, also
\* when total_debt = 0; no debt-load advice is given when income = 0.
C6_RatioAbsentWithoutIncome ==
    call.result # None =>
        LET f == call.arg[1]
            r == call.result[1].debt_income_ratio
        IN  /\ f.monthly_after_tax_income.m = <<>> =>
                  /\ r = None
                  /\ call.advice # None =>
                        /\ ~Contains(call.advice[1], MsgVeryHeavy)
                        /\ ~Contains(call.advice[1], MsgHigh)
            /\ FGt(f.monthly_after_tax_income, Zero) =>
                  /\ r # None
                  /\ XLe(XDist(XMul(r[1], f.monthly_after_tax_income), DebtOf(f)),
                         XMul(DebtSizeOf(f), XPow2(-50)))
                  /\ DebtOf(f).m = <<>> => r[1].m = <<>>

C6_Witness ==
    /\ call.advice # None
    /\ call.arg[1].monthly_after_tax_income = Zero
    /\ call.result[1].total_debt = "300.00"
    /\ call.result[1].debt_income_ratio = None
    /\ call.advice[1] = <<MsgShort, MsgListBills>>

\* The three values of the chart, negative ones replaced by 0, and their sum
ChartValues(res) ==
    <<IF FLt(res.total_debt_raw, Zero) THEN Zero ELSE res.total_debt_raw,
      IF FLt(res.savings_raw, Zero) THEN Zero ELSE res.savings_raw,
      IF FLt(res.spending_raw, Zero) THEN Zero ELSE res.spending_raw>>

ChartTotal(res) ==
    XAdd(XAdd(ChartValues(res)[1], ChartValues(res)[2]), ChartValues(res)[3])

\* The percentage a row shows, in tenths
ShownWidth(row) == Shown(row.text)

ChartShape(res, ch) ==
    /\ XLe(ChartTotal(res), Zero) <=> ch.rows = <<>>
    /\ XLe(ChartTotal(res), Zero) <=> ch.cls = "chart"
    /\ ~XLe(ChartTotal(res), Zero) =>
          /\ Len(ch.rows) = 3
          /\ <<ch.rows[1].label, ch.rows[2].label, ch.rows[3].label>>
                = <<"Debt", "Savings", "Spending">>
          /\ \A i \in 1..3 :
                /\ 0 <= ShownWidth(ch.rows[i])
                /\ ShownWidth(ch.rows[i]) <= 1000
                /\ ch.rows[i].style
                      \in {"width: " \o ch.rows[i].text \o ";", "width: 0%;"}
                /\ ChartValues(res)[i].m = <<>> =>
                      /\ ch.rows[i].text = "0.0%"
                      /\ ch.rows[i].style = "width: 0%;"
          /\ FLt(res.spending_raw, Zero) => ch.rows[3].text = "0.0%"

\* C7 as stated: each percentage is exactly 100 * value / sum.
C7_ChartExactPercentages ==
    call.chart # None =>
        LET res == call.result[1]
            ch == call.chart[1]
        IN  /\ ChartShape(res, ch)
            /\ ~XLe(ChartTotal(res), Zero) =>
                  \A i \in 1..3 :
                      XCmp(XMul(XInt(ShownWidth(ch.rows[i])), ChartTotal(res)),
                           XMul(XInt(1000), ChartValues(res)[i])) = 0

\* C7, amended: bar_chart clamps debt, savings and spending to >= 0; if the
\* sum of the clamped values is <= 0 it returns the placeholder; otherwise
\* each percentage is the floating-point quotient 100 * value / sum rounded
\* to one decimal place (within 0.05 * (1 + 2^-39) of the exact quotient),
\* lies in [0, 100] and is 0 when its clamped value is 0, so Spending is 0%
\* whenever raw spending is negative.
C7_ChartRoundedPercentages ==
    call.chart # None =>
        LET res == call.result[1]
            ch == call.chart[1]
            total == ChartTotal(res)
        IN  /\ ChartShape(res, ch)
            /\ ~XLe(total, Zero) =>
                  \A i \in 1..3 :
                      XLe(XMul(XInt(2),
                               XDist(XMul(XInt(ShownWidth(ch.rows[i])), total),
                                     XMul(XInt(1000), ChartValues(res)[i]))),
                          XAdd(total, XMul(total, XPow2(-39))))

C7_Witness ==
    /\ call.chart # None
    /\ call.result[1].total_debt_raw = FInt(100)
    /\ call.result[1].savings_raw = FInt(100)
    /\ call.result[1].spending_raw = FInt(100)
    /\ call.chart[1].rows[1].text = "33.3%"
    /\ call.chart[1].rows[3].style = "width: 33.3%;"

\* Twelve times a displayed monthly figure against 26 times an amount, both
\* in hundredths
MonthlyGap(shown, x) ==
    XDist(XInt(12 * Shown(shown)), XMul(XInt(100 * paychecks_per_year), x))

\* C8 as stated: each monthly field of the result equals the per-paycheck
\* field of the same result times 26/12.
C8_MonthlyOfDisplayedFields ==
    call.result # None =>
        LET res == call.result[1]
        IN  /\ 12 * Shown(res.total_debt_monthly)
                  = paychecks_per_year * Shown(res.total_debt)
            /\ 12 * Shown(res.available_monthly)
                  = paychecks_per_year * Shown(res.available_cash)
            /\ 12 * Shown(res.monthly_savings)
                  = paychecks_per_year * Shown(res.savings_per_paycheck)
            /\ 12 * Shown(res.monthly_spending)
                  = paychecks_per_year * Shown(res.spending_per_paycheck)

\* How far a displayed monthly figure may be from 26/12 of the amount x:
\* half a hundredth and the rounding of 26/12 and of the product, in the
\* units of MonthlyGap and doubled
MonthlyGapAllowed(x) == XAdd(XInt(12), XMul(XAbs(x), XPow2(-38)))

\* C8, amended: each monthly field of the result is the two-decimal rounding
\* of the floating-point product of the corresponding unrounded per-paycheck
\* amount and 26/12: it lies within half a hundredth, and the rounding of
\* the product, of that amount times 26/12.
C8_MonthlyOfRawAmounts ==
    call.result # None =>
        LET res == call.result[1]
        IN  /\ XLe(XMul(XInt(2), MonthlyGap(res.total_debt_monthly, res.total_debt_raw)),
                   MonthlyGapAllowed(res.total_debt_raw))
            /\ XLe(XMul(XInt(2), MonthlyGap(res.available_monthly, res.available_cash_raw)),
                   MonthlyGapAllowed(res.available_cash_raw))
            /\ XLe(XMul(XInt(2), MonthlyGap(res.monthly_savings, res.savings_raw)),
                   MonthlyGapAllowed(res.savings_raw))
            /\ XLe(XMul(XInt(2), MonthlyGap(res.monthly_spending, res.spending_raw)),
                   MonthlyGapAllowed(res.spending_raw))

C8_Witness ==
    /\ call.result # None
    /\ call.result[1].total_debt_raw = FInt(100)
    /\ call.result[1].total_debt = "100.00"
    /\ call.result[1].total_debt_monthly = "216.67"
    /\ FGt(call.result[1].available_cash_raw, Zero)
    /\ FGt(call.result[1].savings_raw, Zero)

\* C9: whatever the interleaving of the requests, the response to a POST is
\* the handler's function of that request's own fields, so requests with
\* equal fields get equal responses.
C9_ResponseDependsOnOwnFields ==
    /\ \A c \in Clients :
          pc[c] = "done" =>
              /\ response[c] # None
              /\ response[c][1].kind = post(form[c]).kind
              /\ response[c][1] = post(form[c])
    /\ \A c, d \in Clients :
          (pc[c] = "done" /\ pc[d] = "done" /\ form[c] = form[d]) =>
              response[c] = response[d]

C9_Witness ==
    /\ pc[1] = "done"
    /\ pc[2] = "advise"
    /\ page[2] # None
    /\ form[1] # form[2]
    /\ ~Invalid(form[1])
    /\ ~Invalid(form[2])
    /\ response[1][1].kind = "results"

\* C10: for a valid input taken through the handler, the shortfall pair with
\* income > 0 comes with the very-heavy message, and the high message comes
\* only with available_cash > 0, never with the shortfall pair or with the
\* unfavorable summary.
C10_ShortfallImpliesVeryHeavy ==
    \A c \in Clients :
        (pc[c] = "done" /\ response[c][1].kind = "results") =>
            LET a == response[c][1].advice_block
                f == form[c]
                av == result[c][1].available_cash_raw
            IN  /\ ~Invalid(f)
                /\ av = AvailableOf(f)
                /\ Contains(a, MsgShort) <=> FLt(av, Zero)
                /\ Contains(a, MsgListBills) <=> FLt(av, Zero)
                /\ (Contains(a, MsgShort) /\ FGt(f.monthly_after_tax_income, Zero))
                      => Contains(a, MsgVeryHeavy)
                /\ Contains(a, MsgHigh) =>
                      /\ FGt(av, Zero)
                      /\ ~Contains(a, MsgShort)
                      /\ ~Contains(a, MsgListBills)
                      /\ response[c][1].summary_cls # "result-bad"

C10_Witness ==
    /\ pc[1] = "done"
    /\ response[1][1].kind = "results"
    /\ form[1].monthly_after_tax_income = FInt(200)
    /\ FLt(result[1][1].available_cash_raw, Zero)
    /\ response[1][1].summary_cls = "result-bad"
    /\ response[1][1].advice_block = <<MsgShort, MsgListBills, MsgVeryHeavy>>

====
